---- MODULE Spec2Model ----
(***************************************************************************)
(* The data-access layer of the pharmacy dashboard (backend.py): class     *)
(* Database with its mysql.connector connection pool and the three         *)
(* operations fetch, execute and execute_and_get_id, called by concurrent  *)
(* execution contexts of the UI.                                           *)
(*                                                                         *)
(* Grain of atomicity.  A call touches shared state at three kinds of      *)
(* points: the checkout of a connection, a statement sent on the held      *)
(* connection, and the hand-back of the connection.  One action is one     *)
(* such stretch of the handler, with every local step the code takes       *)
(* around it (the except / finally blocks included).                       *)
(*                                                                         *)
(* The library.  pool.get_connection() of mysql.connector takes a          *)
(* connection from the pool's queue without blocking and raises PoolError  *)
(* when the queue is empty; when the dequeued connection cannot be         *)
(* reconnected it is put back and InterfaceError is raised.  close() of a  *)
(* pooled connection resets the session (pool_reset_session=True) and      *)
(* puts the connection back into the queue; the queue holds connections    *)
(* whose sessions are fresh, so it is modelled by its length.  close() of  *)
(* a handle that was closed already gives nothing back ("if conn/cursor    *)
(* already closed this is fine", backend.py line 110).                     *)
(***************************************************************************)
EXTENDS Integers, Sequences, FiniteSets, TLC

\* ---- program constants -------------------------------------------------
pool_size == 5
attempts == 2

\* ---- bounds of the model -----------------------------------------------
PoolCallers == 6     \* concurrent callers in SpecPool (more than pool_size)
MaxFaults == 3       \* failures the environment injects in one run of Spec
PoolFaults == 1      \* failures the environment injects in one run of SpecPool
MaxSets == 2         \* result sets one statement yields
MaxRowcount == 2     \* rows one write statement changes
MaxInserts == 3      \* rows of the identifier-generating table
MaxCart == 2         \* items in the cart of one order

Ops == {"fetch", "execute", "execute_and_get_id"}

\* ---- values ------------------------------------------------------------
\* Rows are numbered; a result set is a sequence of rows: none, or two rows
\* in either order.
RowSeqs == {<<>>, <<1, 2>>, <<2, 1>>}

\* One result set: with_rows is cursor.with_rows once the cursor stands on it.
ResultSets ==
    {[with_rows |-> FALSE, rows |-> <<>>]}
      \cup {[with_rows |-> TRUE, rows |-> r] : r \in RowSeqs}

Statements == UNION {[1..n -> ResultSets] : n \in 1..MaxSets}

\* Python values a call returns.
RowsVal(r) == [kind |-> "rows", rows |-> r, num |-> 0]
IntVal(n) == [kind |-> "int", rows |-> <<>>, num |-> n]
NoneVal == [kind |-> "none", rows |-> <<>>, num |-> 0]

\* Exceptions: the class, and the attempt of the call that raised it.
NoExc == [type |-> "none", attempt |-> 0]
Exc(t, a) == [type |-> t, attempt |-> a]
ErrTypes == {"InterfaceError", "ProgrammingError"}

\* Failures of the environment: where the library call raises, and what.
NoFault == [at |-> "none", k |-> 0, type |-> "none"]
Fault(at, k, t) == [at |-> at, k |-> k, type |-> t]

VARIABLES
    pool,        \* idle connections in the queue of self.pool
    table,       \* the identifier-generating table: table[i] inserted row i
    faultsLeft,  \* failures the environment may still inject
    call,        \* per caller: the frame of its current call (see Frame)
    order,       \* the order form of the page: its progress (see NoOrder)
    items        \* the item table: <<order id, item number>> of every row

vars == <<pool, table, faultsLeft, call, order, items>>

Callers == DOMAIN call

(***************************************************************************)
(* The frame of a call.  pc, op and the code's locals (attempt, conn,      *)
(* rows, last_exc), the outcome (ret, raised), the session value           *)
(* LAST_INSERT_ID() of the held connection (lastId), and history of the    *)
(* call: gets (calls of pool.get_connection), acq / rel (connections       *)
(* taken from / given back to the pool), sends (times the caller's         *)
(* statement was sent), first (rows of the first result set of the latest  *)
(* attempt), unread (result sets left unread when the connection went      *)
(* back), ignored (exceptions the drain loop ignored in the latest         *)
(* attempt), thrown (the exception a library call raised into the latest   *)
(* try body, NoExc when none did), swallowed (a close() raised during      *)
(* cleanup), changed (rows the write statement changed), myRow             *)
(* (identifier of the row the call inserted), drainErr (where in the drain *)
(* loop of the latest attempt a library call raised: "read", "nextset" or  *)
(* "none"), ran (times cursor.execute ran the caller's statement and       *)
(* returned).                                                              *)
(***************************************************************************)
Frame ==
    [pc |-> "idle", op |-> "none", attempt |-> 0, conn |-> "none",
     rows |-> <<>>, last_exc |-> NoExc, ret |-> NoneVal, raised |-> NoExc,
     lastId |-> 0, gets |-> 0, acq |-> 0, rel |-> 0, sends |-> 0,
     first |-> <<>>, unread |-> 0, ignored |-> 0, thrown |-> NoExc,
     swallowed |-> FALSE, changed |-> 0, myRow |-> 0, drainErr |-> "none",
     ran |-> 0]

\* ---- the try body of fetch (lines 58-73) --------------------------------
\* The library calls of one attempt that the environment can make raise:
\* cursor.execute, fetchall on set k ("read"), the k-th call of nextset.
FetchFaults(sets) ==
    {NoFault}
      \cup {Fault("execute", 0, t) : t \in ErrTypes}
      \cup {Fault("read", k, t) :
              k \in {i \in 1..Len(sets) : sets[i].with_rows}, t \in ErrTypes}
      \cup {Fault("nextset", k, t) : k \in 1..Len(sets), t \in ErrTypes}

\* rows = cursor.fetchall() if cursor.with_rows else []
FirstRows(sets) == IF sets[1].with_rows THEN sets[1].rows ELSE <<>>

\* The assignment to the local rows (faulty variant: rows of an earlier
\* attempt are kept and extended).
AssignRowsAppending(old, new) == old \o new
AssignRows(old, new) == new

\* Where in the drain loop the failing library call of an attempt stands:
\* the read of a set after the first, a call of nextset(), or neither.
DrainError(f) ==
    IF f.at = "read" /\ f.k > 1 THEN "read"
    ELSE IF f.at = "nextset" THEN "nextset"
    ELSE "none"

\* cursor.execute(query, params or ()) returned: the statement has run.
StatementRan(f) == f.at # "execute"

(***************************************************************************)
(* while cursor.nextset(): try: if cursor.with_rows: cursor.fetchall()     *)
(* except Exception: pass.  The cursor stands on set k.  The k-th call of  *)
(* nextset() either raises (the exception leaves the loop), returns False  *)
(* (k was the last set) or moves the cursor to set k+1, which is read when *)
(* it has rows; an exception of that read is ignored and the set stays     *)
(* unread.  The result: the exception that left the loop, the sets left    *)
(* unread and the number of exceptions ignored.                            *)
(***************************************************************************)
RECURSIVE Drain(_, _, _, _)
Drain(sets, k, f, a) ==
    IF f.at = "nextset" /\ f.k = k
    THEN [exc |-> Exc(f.type, a), unread |-> (k + 1)..Len(sets), ignored |-> 0]
    ELSE IF k >= Len(sets)
    THEN [exc |-> NoExc, unread |-> {}, ignored |-> 0]
    ELSE LET rest == Drain(sets, k + 1, f, a)
             fails == sets[k + 1].with_rows /\ f.at = "read" /\ f.k = k + 1
         IN  [exc |-> rest.exc,
              unread |-> (IF fails THEN {k + 1} ELSE {}) \cup rest.unread,
              ignored |-> (IF fails THEN 1 ELSE 0) + rest.ignored]

\* One pass through the try body with a cursor: the exception it ends with
\* (NoExc: it reached return rows), the local rows, the sets left unread.
FetchTry(sets, f, a, oldrows) ==
    IF f.at = "execute"
    THEN [exc |-> Exc(f.type, a), rows |-> oldrows, unread |-> {},
          ignored |-> 0]
    ELSE IF sets[1].with_rows /\ f.at = "read" /\ f.k = 1
    THEN [exc |-> Exc(f.type, a), rows |-> oldrows, unread |-> 1..Len(sets),
          ignored |-> 0]
    ELSE LET d == Drain(sets, 1, f, a)
         IN  [exc |-> d.exc,
              rows |-> AssignRows(oldrows, FirstRows(sets)),
              unread |-> d.unread,
              ignored |-> d.ignored]

\* ---- the except and finally blocks -------------------------------------
\* except db_errors.InterfaceError (faulty variants: every exception is
\* retried; PoolError is retried too).
TransientAny(e) == TRUE
TransientOrPool(e) == e.type \in {"InterfaceError", "PoolError"}
Transient(e) == e.type = "InterfaceError"

\* fetch loops over range(attempts); execute and execute_and_get_id have no
\* loop (faulty variant: they loop like fetch).
AttemptsAlways(o) == attempts
Attempts(o) == IF o = "fetch" THEN attempts ELSE 1

\* if attempt + 1 < attempts: time.sleep(0.2); continue.  The last iteration
\* returns or raises, so the statements after the loop (lines 122-126) are
\* never reached.  (Faulty variant: one iteration more.)
RetriesOnceMore(o, a, e) == Transient(e) /\ a + 1 <= Attempts(o)
Retries(o, a, e) == Transient(e) /\ a + 1 < Attempts(o)

\* raise (lines 93, 107): the exception being handled; last is last_exc
\* before this handler assigned it (faulty variant: the first recorded
\* exception is raised).
RaisedFirst(e, last) == IF last # NoExc THEN last ELSE e
RaisedExc(e, last) == e

\* try: if conn: conn.close() except Exception: pass -- in a try block of its
\* own, so it runs whether or not cursor.close() raised (cf: the close()
\* calls that raise).  h is the local conn.  (Faulty variant: both close()
\* calls share one try block; the connection is never closed.)
ReleasesUnlessCursorFails(h, cf) == h = "open" /\ "cursor" \notin cf
ReleasesNothing(h, cf) == FALSE
CleanupReleases(h, cf) == h = "open"

\* except Exception: pass around every close(): the outcome stays (faulty
\* variant: the exception of close() leaves the cleanup block).
CleanupMasks(out, cf, a) ==
    IF cf # {}
    THEN [ret |-> NoneVal, raised |-> Exc("CleanupError", a)]
    ELSE out
AfterCleanup(out, cf, a) == out

(***************************************************************************)
(* The end of one pass through try / except / finally.  fr is the frame    *)
(* when the try body ended, e the exception it ended with (NoExc: it       *)
(* returned v), cf the close() calls that raise.  The handlers and the     *)
(* finally block close cursor and conn; then the call returns, raises or   *)
(* (fetch) sleeps and goes round the loop again.                           *)
(***************************************************************************)
EndAttempt(fr, e, v, cf) ==
    LET gave == CleanupReleases(fr.conn, cf)
        again == e # NoExc /\ Retries(fr.op, fr.attempt, e)
        out == AfterCleanup(
                 [ret |-> IF e = NoExc THEN v ELSE NoneVal,
                  raised |-> IF e = NoExc THEN NoExc
                             ELSE RaisedExc(e, fr.last_exc)],
                 cf, fr.attempt)
    IN  [fr EXCEPT
           !.pc = IF again THEN "sleep" ELSE "done",
           !.conn = IF gave THEN "closed" ELSE @,
           !.rel = IF gave THEN @ + 1 ELSE @,
           !.lastId = IF gave THEN 0 ELSE @,
           !.last_exc = IF fr.op = "fetch" /\ e # NoExc /\ Transient(e)
                        THEN e ELSE @,
           !.ret = IF again THEN @ ELSE out.ret,
           !.raised = IF again THEN @ ELSE out.raised,
           !.swallowed = @ \/ cf # {}]

\* close() calls that can raise during cleanup: of the objects that exist.
CloseFaults(hasCursor) ==
    IF hasCursor THEN SUBSET {"cursor", "conn"} ELSE SUBSET {"conn"}

Cost(f, cf) == (IF f = NoFault THEN 0 ELSE 1) + Cardinality(cf)

\* What the environment did to the try body: the exception the failing
\* library call raised into it (a read of an additional result set raises
\* inside the inner try of the drain loop, not into the body).
Thrown(f, a) ==
    IF f = NoFault \/ (f.at = "read" /\ f.k > 1) THEN NoExc ELSE Exc(f.type, a)

\* Where caller c stands: before a call, between two attempts of fetch, in
\* operation o with connection and cursor, between the two statements of
\* execute_and_get_id, or with the outcome of its call.
At(c, p) == call[c].pc = p
Holding(c, o) == call[c].pc = "holding" /\ call[c].op = o

\* ---- the pool (lines 21-41) ---------------------------------------------
\* pool.get_connection() on an empty queue: raises PoolError, does not wait
\* (faulty variant: a pool that opens one more connection instead).
PoolGrows(q) == FALSE
PoolExhausted(q) == q = 0

CheckoutFaults ==
    {NoFault, Fault("reconnect", 0, "InterfaceError")}
      \cup {Fault("cursor", 0, t) : t \in ErrTypes}

(***************************************************************************)
(* conn = self._get_connection(); cursor = conn.cursor(...) at the head of *)
(* a try body, fr0 being the frame at the head.  get_connection() raises   *)
(* PoolError on an exhausted pool and InterfaceError when the connection   *)
(* cannot be reconnected (conn stays None in both); conn.cursor() may      *)
(* raise with the connection held, and the handlers close it.              *)
(***************************************************************************)
Checkout(c, fr0, f) ==
    LET a == fr0.attempt
        fr1 == [fr0 EXCEPT !.gets = @ + 1,
                           !.thrown = IF PoolExhausted(pool)
                                      THEN Exc("PoolError", a)
                                      ELSE Thrown(f, a)]
        fr2 == [fr1 EXCEPT !.conn = "open", !.acq = @ + 1, !.lastId = 0]
    IN  /\ UNCHANGED table
        /\ IF PoolExhausted(pool)
           THEN /\ f = NoFault
                /\ call' = [call EXCEPT
                              ![c] = EndAttempt(fr1, Exc("PoolError", a), NoneVal, {})]
                /\ UNCHANGED <<pool, faultsLeft>>
           ELSE IF f.at = "reconnect"
           THEN /\ Cost(f, {}) <= faultsLeft
                /\ faultsLeft' = faultsLeft - Cost(f, {})
                /\ call' = [call EXCEPT
                              ![c] = EndAttempt(fr1, Exc(f.type, a), NoneVal, {})]
                /\ UNCHANGED pool
           ELSE IF f.at = "cursor"
           THEN \E cf \in CloseFaults(FALSE) :
                  LET new == EndAttempt(fr2, Exc(f.type, a), NoneVal, cf)
                  IN  /\ Cost(f, cf) <= faultsLeft
                      /\ faultsLeft' = faultsLeft - Cost(f, cf)
                      /\ call' = [call EXCEPT ![c] = new]
                      /\ pool' = pool - 1 + (new.rel - fr2.rel)
           ELSE /\ call' = [call EXCEPT ![c] = [fr2 EXCEPT !.pc = "holding"]]
                /\ pool' = pool - 1
                /\ UNCHANGED faultsLeft

\* A caller enters fetch, execute or execute_and_get_id.
Begin(c, o, f) ==
    /\ At(c, "idle")
    /\ Checkout(c, [Frame EXCEPT !.op = o], f)

\* fetch, after time.sleep(0.2): the next iteration of the loop.
Retry(c, f) ==
    /\ At(c, "sleep")
    /\ Checkout(c, [call[c] EXCEPT !.attempt = @ + 1, !.conn = "none",
                                   !.unread = 0, !.ignored = 0,
                                   !.drainErr = "none"], f)

\* fetch with connection and cursor: the statement, the reads, the cleanup.
RunFetch(c, sets, f, cf) ==
    /\ Holding(c, "fetch")
    /\ Cost(f, cf) <= faultsLeft
    /\ LET fr == call[c]
           t == FetchTry(sets, f, fr.attempt, fr.rows)
           fr1 == [fr EXCEPT !.sends = @ + 1,
                             !.rows = t.rows,
                             !.first = FirstRows(sets),
                             !.unread = Cardinality(t.unread),
                             !.ignored = t.ignored,
                             !.thrown = Thrown(f, fr.attempt),
                             !.drainErr = DrainError(f),
                             !.ran = IF StatementRan(f) THEN @ + 1 ELSE @]
           new == EndAttempt(fr1, t.exc, RowsVal(t.rows), cf)
       IN  /\ call' = [call EXCEPT ![c] = new]
           /\ pool' = pool + (new.rel - fr1.rel)
    /\ faultsLeft' = faultsLeft - Cost(f, cf)
    /\ UNCHANGED table

WriteFaults == {NoFault} \cup {Fault("execute", 0, t) : t \in ErrTypes}

\* rowcount = cursor.rowcount; return rowcount -- of a statement that changed
\* n rows (faulty variant: whether any row changed).
RowcountAny(n) == IF n > 0 THEN 1 ELSE 0
Rowcount(n) == n

\* execute with connection and cursor: the statement changes n rows.
RunExecute(c, n, f, cf) ==
    /\ Holding(c, "execute")
    /\ Cost(f, cf) <= faultsLeft
    /\ LET fr == call[c]
           e == IF f = NoFault THEN NoExc ELSE Exc(f.type, fr.attempt)
           fr1 == [fr EXCEPT !.sends = @ + 1,
                             !.changed = IF f = NoFault THEN n ELSE @,
                             !.thrown = Thrown(f, fr.attempt)]
           new == EndAttempt(fr1, e, IntVal(Rowcount(n)), cf)
       IN  /\ call' = [call EXCEPT ![c] = new]
           /\ pool' = pool + (new.rel - fr1.rel)
    /\ faultsLeft' = faultsLeft - Cost(f, cf)
    /\ UNCHANGED table

\* SELECT LAST_INSERT_ID(): the value of the session the statement runs in
\* (fr: the frame of the caller; t: the table).  (Faulty variant: the last
\* identifier the table generated, for whatever session.)
LastInsertIdGlobal(fr, t) == Len(t)
LastInsertId(fr, t) == fr.lastId

\* row = cursor.fetchone(); if row: return int(row[0]); return None
IdResult(row) == IF row # <<>> THEN IntVal(row[1]) ELSE NoneVal

\* execute_and_get_id, first statement: the caller's insert.  gen: the
\* statement writes a table that generates an identifier.
Insert(c, gen, f, cf) ==
    /\ Holding(c, "execute_and_get_id")
    /\ Cost(f, cf) <= faultsLeft
    /\ gen => Len(table) < MaxInserts
    /\ LET fr == call[c]
           id == Len(table) + 1
           fr1 == [fr EXCEPT !.sends = @ + 1, !.thrown = Thrown(f, fr.attempt)]
       IN  IF f # NoFault
           THEN LET new == EndAttempt(fr1, Exc(f.type, fr.attempt), NoneVal, cf)
                IN  /\ call' = [call EXCEPT ![c] = new]
                    /\ pool' = pool + (new.rel - fr1.rel)
                    /\ UNCHANGED table
           ELSE /\ cf = {}
                /\ table' = IF gen THEN Append(table, c) ELSE table
                /\ call' = [call EXCEPT
                              ![c] = [fr1 EXCEPT
                                        !.pc = "inserted",
                                        !.lastId = IF gen THEN id ELSE @,
                                        !.myRow = IF gen THEN id ELSE @]]
                /\ UNCHANGED pool
    /\ faultsLeft' = faultsLeft - Cost(f, cf)

\* execute_and_get_id, second statement on the same cursor, and the cleanup.
SelectId(c, f, cf) ==
    /\ At(c, "inserted")
    /\ Cost(f, cf) <= faultsLeft
    /\ LET fr == call[c]
           e == IF f = NoFault THEN NoExc ELSE Exc(f.type, fr.attempt)
           row == <<LastInsertId(fr, table)>>
           fr1 == [fr EXCEPT !.thrown = Thrown(f, fr.attempt)]
           new == EndAttempt(fr1, e, IdResult(row), cf)
       IN  /\ call' = [call EXCEPT ![c] = new]
           /\ pool' = pool + (new.rel - fr.rel)
    /\ faultsLeft' = faultsLeft - Cost(f, cf)
    /\ UNCHANGED table

\* The caller has the outcome of the call and is ready for its next one.
Return(c) ==
    /\ At(c, "done")
    /\ call' = [call EXCEPT ![c] = Frame]
    /\ UNCHANGED <<pool, table, faultsLeft>>

\* ---- specifications ----------------------------------------------------
\* The order form before "Submit Full Order": pc is "cart", then "header"
\* (in execute_and_get_id), "items" (in the loop over the cart, k items
\* inserted), and at the end "created", "refused" (order_id was falsy) or
\* "failed" (an exception left the handler); id is order_id.
NoOrder == [pc |-> "cart", cart |-> 0, k |-> 0, id |-> 0]

\* Database.__init__: the pool is filled with pool_size connections.
InitWith(n, faults) ==
    /\ pool = pool_size
    /\ table = <<>>
    /\ faultsLeft = faults
    /\ call = [c \in 1..n |-> Frame]
    /\ order = NoOrder
    /\ items = <<>>

\* One caller at a time: what one call does.
Init == InitWith(1, MaxFaults)

Next ==
    /\ UNCHANGED <<order, items>>
    /\ \E c \in Callers :
        \/ /\ At(c, "idle")
           /\ \E o \in Ops, f \in CheckoutFaults : Begin(c, o, f)
        \/ /\ At(c, "sleep")
           /\ \E f \in CheckoutFaults : Retry(c, f)
        \/ /\ Holding(c, "fetch")
           /\ \E sets \in Statements :
                \E f \in FetchFaults(sets), cf \in CloseFaults(TRUE) :
                   RunFetch(c, sets, f, cf)
        \/ /\ Holding(c, "execute")
           /\ \E n \in 0..MaxRowcount, f \in WriteFaults, cf \in CloseFaults(TRUE) :
                RunExecute(c, n, f, cf)
        \/ /\ Holding(c, "execute_and_get_id")
           /\ \E gen \in BOOLEAN, f \in WriteFaults, cf \in CloseFaults(TRUE) :
                Insert(c, gen, f, cf)
        \/ /\ At(c, "inserted")
           /\ \E f \in WriteFaults, cf \in CloseFaults(TRUE) : SelectId(c, f, cf)
        \/ /\ At(c, "done")
           /\ Return(c)

Spec == Init /\ [][Next]_vars

\* More callers than connections, each calling a fixed operation with a
\* fixed statement.
PoolOp(c) ==
    IF c % 3 = 1 THEN "fetch"
    ELSE IF c % 3 = 2 THEN "execute" ELSE "execute_and_get_id"

PoolStatement == <<[with_rows |-> TRUE, rows |-> <<1>>]>>

InitPool == InitWith(PoolCallers, PoolFaults)

\* The failures of SpecPool: a connection that dropped, found at checkout
\* or when the statement is sent.
PoolCheckoutFaults == {NoFault, Fault("reconnect", 0, "InterfaceError")}
PoolRunFaults == {NoFault, Fault("execute", 0, "InterfaceError")}

\* The next step of caller c in its call.
PoolStep(c) ==
    /\ UNCHANGED <<order, items>>
    /\ \/ /\ At(c, "idle")
          /\ \E f \in PoolCheckoutFaults : Begin(c, PoolOp(c), f)
       \/ /\ At(c, "sleep")
          /\ \E f \in PoolCheckoutFaults : Retry(c, f)
       \/ /\ Holding(c, "fetch")
          /\ \E f \in PoolRunFaults : RunFetch(c, PoolStatement, f, {})
       \/ /\ Holding(c, "execute")
          /\ \E f \in PoolRunFaults : RunExecute(c, 1, f, {})
       \/ /\ Holding(c, "execute_and_get_id")
          /\ \E f \in PoolRunFaults : Insert(c, TRUE, f, {})
       \/ /\ At(c, "inserted")
          /\ \E f \in PoolRunFaults : SelectId(c, f, {})

NextPool == \E c \in Callers : PoolStep(c)

SpecPool == InitPool /\ [][NextPool]_vars

\* One concurrent caller more than the pool has connections.
LiveCallers == pool_size + 1

InitLive == InitWith(LiveCallers, PoolFaults)

\* Every caller is a thread of its own that the scheduler runs again and
\* again, and the library calls of a step terminate (the 0.2 s sleep ends):
\* a caller whose next step stays possible takes it.
SpecLive ==
    InitLive /\ [][NextPool]_vars /\ \A c \in 1..LiveCallers : WF_vars(PoolStep(c))

(***************************************************************************)
(* The order form of create_order_page (app.py lines 233-245), submitted   *)
(* by caller 1: the order header goes through execute_and_get_id, then     *)
(* every item of the cart through one execute.  The pool is created with   *)
(* autocommit=True (backend.py line 32), so a statement that ran is        *)
(* committed when it ran.  The handler has no try block and no             *)
(* transaction: an exception of a call leaves it at once.                  *)
(***************************************************************************)
\* The rows of the item table after the insert of one item row.
StatementEffect(its, row, f) == IF f = NoFault THEN Append(its, row) ELSE its

\* The rows of the item table after an insert of order id raised: nothing
\* is undone (faulty variant: the items of the order are rolled back).
RollsBack(its, id) == SelectSeq(its, LAMBDA r : r[1] # id)
OnItemFailure(its, id) == its

\* if order_id: -- the value execute_and_get_id returned is truthy.
Truthy(v) == v.kind = "int" /\ v.num # 0

\* "Submit Full Order" with n items in the cart: execute_and_get_id is called.
SubmitOrder(n, f) ==
    /\ order.pc = "cart"
    /\ Begin(1, "execute_and_get_id", f)
    /\ order' = [order EXCEPT !.pc = "header", !.cart = n]
    /\ UNCHANGED items

\* The two statements of execute_and_get_id for the header.
HeaderInsert(f, cf) ==
    /\ order.pc = "header"
    /\ Insert(1, TRUE, f, cf)
    /\ UNCHANGED <<order, items>>

HeaderId(f, cf) ==
    /\ order.pc = "header"
    /\ SelectId(1, f, cf)
    /\ UNCHANGED <<order, items>>

\* order_id = db.execute_and_get_id(...); if order_id: ... else: st.error(...)
HeaderResult ==
    /\ order.pc = "header"
    /\ Return(1)
    /\ order' = IF call[1].raised # NoExc
                THEN [order EXCEPT !.pc = "failed"]
                ELSE IF Truthy(call[1].ret)
                THEN [order EXCEPT !.pc = "items", !.id = call[1].ret.num]
                ELSE [order EXCEPT !.pc = "refused"]
    /\ UNCHANGED items

\* for item in st.session_state[cart_name]: db.execute(item_query, ...)
ItemCall(f) ==
    /\ order.pc = "items"
    /\ order.k < order.cart
    /\ Begin(1, "execute", f)
    /\ UNCHANGED <<order, items>>

\* The insert of item k+1 on the held connection, and the cleanup.
ItemInsert(f, cf) ==
    /\ order.pc = "items"
    /\ RunExecute(1, 1, f, cf)
    /\ items' = StatementEffect(items, <<order.id, order.k + 1>>, f)
    /\ UNCHANGED order

\* db.execute returned (the loop goes on, or the cart is cleared and the
\* order reported created) or raised (the exception leaves the handler).
ItemResult ==
    /\ order.pc = "items"
    /\ Return(1)
    /\ IF call[1].raised # NoExc
       THEN /\ order' = [order EXCEPT !.pc = "failed"]
            /\ items' = OnItemFailure(items, order.id)
       ELSE /\ order' = [order EXCEPT
                           !.k = @ + 1,
                           !.pc = IF order.k + 1 = order.cart
                                  THEN "created" ELSE @]
            /\ UNCHANGED items

NextOrder ==
    \/ /\ At(1, "idle")
       /\ \E n \in 1..MaxCart, f \in CheckoutFaults : SubmitOrder(n, f)
    \/ /\ Holding(1, "execute_and_get_id")
       /\ \E f \in WriteFaults, cf \in CloseFaults(TRUE) : HeaderInsert(f, cf)
    \/ /\ At(1, "inserted")
       /\ \E f \in WriteFaults, cf \in CloseFaults(TRUE) : HeaderId(f, cf)
    \/ HeaderResult
    \/ /\ At(1, "idle")
       /\ \E f \in CheckoutFaults : ItemCall(f)
    \/ /\ Holding(1, "execute")
       /\ \E f \in WriteFaults, cf \in CloseFaults(TRUE) : ItemInsert(f, cf)
    \/ ItemResult

SpecOrder == Init /\ [][NextOrder]_vars

\* ---- properties ---------------------------------------------------------
Done(c) == call[c].pc = "done"
Returned(c) == Done(c) /\ call[c].raised = NoExc
CheckedOut == Cardinality({c \in Callers : call[c].conn = "open"})
IE(a) == Exc("InterfaceError", a)

C2_OwnId ==
    \A c \in Callers :
        call[c].op = "execute_and_get_id" =>
          /\ call[c].gets <= 1
          /\ call[c].pc = "inserted" =>
               /\ call[c].conn = "open" /\ call[c].acq = 1 /\ call[c].rel = 0
               /\ table[call[c].myRow] = c
          /\ Returned(c) =>
               /\ call[c].ret = IntVal(call[c].myRow)
               /\ table[call[c].myRow] = c
               /\ call[c].acq = 1 /\ call[c].rel = 1

\* A caller got its own identifier although another caller inserted the row
\* after it in the same table.
C2_Witness ==
    \E c \in Callers :
        /\ Returned(c) /\ call[c].op = "execute_and_get_id"
        /\ call[c].ret = IntVal(1)
        /\ Len(table) >= 2 /\ table[2] # c

\* C3: a fetch whose first attempt raised InterfaceError and whose second
\* attempt met no failure returns, and returns the rows of the first result
\* set of the second attempt.
C3_RetrySucceeds ==
    \A c \in Callers :
        (/\ call[c].op = "fetch" /\ Done(c) /\ call[c].attempt = 1
         /\ call[c].thrown = NoExc)
        => /\ call[c].raised = NoExc
           /\ call[c].ret = RowsVal(call[c].first)
           /\ call[c].last_exc = IE(0)

\* The second attempt returned two rows after the first attempt had failed.
C3_Witness ==
    \E c \in Callers :
        /\ Returned(c) /\ call[c].op = "fetch" /\ call[c].attempt = 1
        /\ call[c].last_exc = IE(0) /\ call[c].ret = RowsVal(<<2, 1>>)
        /\ ~call[c].swallowed /\ call[c].ignored = 0

\* C4: fetch never makes a third attempt, and when the second attempt too
\* raises InterfaceError, fetch raises the error of the second attempt.
C4_SecondError ==
    \A c \in Callers :
        /\ call[c].attempt < attempts
        /\ call[c].gets <= attempts
        /\ call[c].sends <= attempts
        /\ (/\ call[c].op = "fetch" /\ Done(c) /\ call[c].attempt = 1
            /\ call[c].thrown.type = "InterfaceError")
           => call[c].raised = IE(1) /\ call[c].gets = 2

\* Both attempts sent the statement and both failed.
C4_Witness ==
    \E c \in Callers :
        /\ Done(c) /\ call[c].op = "fetch" /\ call[c].raised = IE(1)
        /\ call[c].gets = 2 /\ call[c].sends = 2

\* C5: a fetch attempt that fails with an exception other than
\* InterfaceError ends the call with that exception: fetch does not go round
\* the loop again, takes no further connection, and has released the
\* connection of the failed attempt.
C5_NoRetryOnOther ==
    \A c \in Callers :
        call[c].op = "fetch" =>
          /\ call[c].pc = "sleep" => call[c].thrown = IE(call[c].attempt)
          /\ (Done(c) /\ call[c].thrown.type \notin {"none", "InterfaceError"})
             => /\ call[c].raised = call[c].thrown
                /\ call[c].raised.attempt = call[c].attempt
                /\ call[c].gets = call[c].attempt + 1
                /\ call[c].conn # "open"
                /\ call[c].rel = call[c].acq

\* A statement error on the first attempt, after one checkout.
C5_Witness ==
    \E c \in Callers :
        /\ Done(c) /\ call[c].op = "fetch"
        /\ call[c].raised = Exc("ProgrammingError", 0)
        /\ call[c].gets = 1 /\ call[c].acq = 1 /\ call[c].rel = 1
        /\ call[c].sends = 1

\* C6: a call of execute or execute_and_get_id asks the pool for a
\* connection at most once, sends its statement at most once and never waits
\* to try again; the exception of its one attempt is the one it raises.
C6_WritesNotRetried ==
    \A c \in Callers :
        call[c].op \in {"execute", "execute_and_get_id"} =>
          /\ call[c].gets <= 1 /\ call[c].acq <= 1 /\ call[c].sends <= 1
          /\ call[c].pc # "sleep" /\ call[c].attempt = 0
          /\ Done(c) => call[c].raised = call[c].thrown

\* An execute that failed with a transient error, once.
C6_Witness ==
    \E c \in Callers :
        /\ Done(c) /\ call[c].op = "execute" /\ call[c].raised = IE(0)
        /\ call[c].gets = 1 /\ call[c].sends = 1

\* C7: a fetch that returns has returned the rows of the first result set
\* and has left no result set unread on the connection it gave back.
C7_AllConsumed ==
    \A c \in Callers :
        (Returned(c) /\ call[c].op = "fetch")
        => call[c].ret = RowsVal(call[c].first) /\ call[c].unread = 0

C9_NeverPoolError ==
    \A c \in Callers : ~(Done(c) /\ call[c].raised.type = "PoolError")

\* C9 amended: a caller that asks for a connection while every connection
\* is checked out does not wait: that step ends its call with PoolError,
\* raised by the attempt that asked, with no connection taken and no
\* further attempt, also in fetch.
C9_FailsFast ==
    [][\A c \in Callers :
         (/\ pool = 0
          /\ call[c].pc \in {"idle", "sleep"}
          /\ call'[c] # call[c])
         => /\ call'[c].pc = "done"
            /\ call'[c].raised = Exc("PoolError", call'[c].attempt)
            /\ call'[c].conn = "none"
            /\ call'[c].acq = call'[c].rel
            /\ pool' = 0]_vars

\* A fetch whose second attempt found the pool exhausted.
C9_Witness ==
    \E c \in Callers :
        /\ Done(c) /\ call[c].raised = Exc("PoolError", 1)
        /\ call[c].last_exc = IE(0)

\* C10: an exception of cursor.close() or conn.close() never changes the
\* outcome: the call raises the exception its try body ended with, and when
\* the body returned, the call returns the body's value.
C10_CleanupSwallowed ==
    \A c \in Callers :
        Done(c) =>
          /\ call[c].raised = call[c].thrown
          /\ call[c].raised = NoExc =>
               call[c].ret =
                 CASE call[c].op = "fetch" -> RowsVal(call[c].first)
                   [] call[c].op = "execute" -> IntVal(call[c].changed)
                   [] OTHER -> IntVal(call[c].myRow)

\* The statement failed and a close() failed during the cleanup: the call
\* raises the statement's error, with the connection given back.
C10_Witness ==
    \E c \in Callers :
        /\ Done(c) /\ call[c].swallowed
        /\ call[c].raised = Exc("ProgrammingError", 0)
        /\ call[c].rel = 1

\* C11: order creation is not atomic.  When the insert of an item raises,
\* the handler ends there: the header row and the items inserted before it
\* are in the tables, the failing item and the items after it are not, and
\* nothing is deleted or rolled back.  When execute_and_get_id itself
\* raises, no item has been inserted.
C11_NotAtomic ==
    order.pc = "failed" =>
        IF order.id = 0
        THEN items = <<>>
        ELSE /\ order.k < order.cart
             /\ order.id \in 1..Len(table) /\ table[order.id] = 1
             /\ items = [i \in 1..order.k |-> <<order.id, i>>]

\* The second of two items failed: the header and the first item stay.
C11_Witness ==
    /\ order.pc = "failed" /\ order.cart = 2 /\ order.k = 1
    /\ table = <<1>> /\ items = <<<<1, 1>>>>

\* C12: execute_and_get_id returns none when the statement it issued
\* generated no identifier: a call that returns without having generated a
\* row identifier returns none, not a number.
C12_NoneWhenNoId ==
    \A c \in Callers :
        (Returned(c) /\ call[c].op = "execute_and_get_id" /\ call[c].myRow = 0)
            => call[c].ret = NoneVal

\* C13: a call of execute that returned has returned the number of rows its
\* statement changed, and when execute has returned or raised its connection
\* has been released.
C13_Rowcount ==
    \A c \in Callers :
        (Done(c) /\ call[c].op = "execute") =>
            /\ call[c].raised = NoExc => call[c].ret = IntVal(call[c].changed)
            /\ call[c].rel = call[c].acq
            /\ call[c].conn # "open"

\* execute changed two rows, returned 2 and gave its connection back.
C13_Witness ==
    \E c \in Callers :
        /\ Returned(c) /\ call[c].op = "execute"
        /\ call[c].changed = 2 /\ call[c].ret = IntVal(2)
        /\ call[c].acq = 1 /\ call[c].rel = 1 /\ pool = pool_size

\* C14: when fetch goes round its loop again, the connection of the first
\* attempt has been closed before the second attempt asks the pool for one:
\* at every point of a fetch call the caller has at most one connection
\* checked out, and none between the attempts.
C14_OneConnection ==
    \A c \in Callers :
        call[c].op = "fetch" =>
            /\ call[c].acq - call[c].rel \in {0, 1}
            /\ call[c].acq - call[c].rel = 1 <=> call[c].conn = "open"
            /\ pool = pool_size - (call[c].acq - call[c].rel)
            /\ At(c, "sleep") => call[c].acq = call[c].rel /\ pool = pool_size

\* The second attempt holds the second connection, the first one is back.
C14_Witness ==
    \E c \in Callers :
        /\ Holding(c, "fetch") /\ call[c].attempt = 1
        /\ call[c].acq = 2 /\ call[c].rel = 1 /\ pool = pool_size - 1

\* C15: an error raised while fetch drains the result sets after the first
\* (reading one of them, or advancing to one with nextset()) is ignored: the
\* attempt it happened in returns the rows of the first result set, so
\* nothing is raised and nothing is retried.
C15_DrainErrorsIgnored ==
    \A c \in Callers :
        (call[c].op = "fetch" /\ call[c].drainErr # "none") =>
            Returned(c) /\ call[c].ret = RowsVal(call[c].first)

\* C16: one call of fetch sends its statement at most twice, and the second
\* time only in its second attempt, after the first attempt ended with an
\* InterfaceError; the statement ran at most as often as it was sent (it ran
\* and the error came afterwards, or it did not run).
C16_SentTwiceAtMost ==
    /\ [](\A c \in Callers :
            call[c].op = "fetch" =>
                /\ call[c].sends <= attempts
                /\ call[c].ran <= call[c].sends
                /\ call[c].sends = 2 =>
                     call[c].attempt = 1 /\ call[c].last_exc.type = "InterfaceError")
    /\ [][\A c \in Callers :
            (call[c].op = "fetch" /\ call[c].sends = 1 /\ call'[c].sends = 2) =>
                call[c].attempt = 1 /\ call[c].last_exc = IE(0)]_vars

\* The statement ran in the first attempt, an InterfaceError came after it
\* (from a read or nextset()), and ran again in the second: a procedure
\* called through fetch was executed twice, and fetch returned.
C16_Witness ==
    \E c \in Callers :
        /\ Returned(c) /\ call[c].op = "fetch"
        /\ call[c].sends = 2 /\ call[c].ran = 2 /\ call[c].last_exc = IE(0)

\* No caller asks the pool for a connection while it holds one.
NoHoldAndWait ==
    [][\A c \in Callers :
         call'[c].gets > call[c].gets => call[c].conn # "open"]_vars

\* A call that is over has given back every connection it took.
ReleasedWhenOver ==
    [](\A c \in Callers :
         Done(c) => call[c].conn # "open" /\ call[c].rel = call[c].acq)

\* No deadlock: as long as a call is not over, some caller can take a step.
NoPoolDeadlock == []((\A c \in Callers : Done(c)) \/ ENABLED NextPool)

\* Every call is over at some time (and stays so: each caller makes one
\* call), all connections back in the pool.
EveryCallEnds == <>[](pool = pool_size /\ \A c \in Callers : Done(c))

\* C17 as stated: checkout blocks -- a caller gets past its request for a
\* connection only when the pool has an idle one -- and with that no
\* deadlock is reachable, every call of the concurrent callers ends, no
\* caller asks for a connection while holding one, and each has released
\* its connection when its call is over.
C17_BlockingCheckout ==
    /\ [][\A c \in Callers :
            (call[c].pc \in {"idle", "sleep"} /\ call'[c] # call[c])
                => pool > 0]_vars
    /\ NoHoldAndWait /\ ReleasedWhenOver /\ NoPoolDeadlock /\ EveryCallEnds

\* C17, amended: checkout does not block -- a request on the exhausted pool
\* ends the call with PoolError, no connection held -- and more callers than
\* the pool has connections never deadlock: under fair scheduling every
\* call ends, returning or raising; no caller asks for a connection while
\* holding one, and each has released its connection when its call is over.
C17_EveryCallEnds ==
    /\ [](\A c \in Callers :
            (Done(c) /\ call[c].raised.type = "PoolError") => call[c].acq = call[c].rel)
    /\ NoHoldAndWait /\ ReleasedWhenOver /\ NoPoolDeadlock /\ EveryCallEnds

\* Six calls on five connections are all over, one of them ended by the
\* exhausted pool, a fetch among those that returned after a retry, and the
\* pool is full again.
C17_Witness ==
    /\ \A c \in Callers : Done(c)
    /\ pool = pool_size
    /\ \E c \in Callers : call[c].raised.type = "PoolError" /\ call[c].acq = 0
    /\ \E c \in Callers : Returned(c) /\ call[c].attempt = 1 /\ call[c].rel = 2

====
